---- MODULE Spec2Model ----
(***************************************************************************)
(* Parallel bitonic sorter (ch03/bitonic-sorter/src/parallel.rs).          *)
(*                                                                         *)
(* Two views of the same code are modelled.                                *)
(*   Spec      the call tree of one sort / sort_by call as a state         *)
(*             machine: one frame per active call of do_sort / sub_sort,   *)
(*             one step per statement, the two closures of a rayon::join   *)
(*             interleaved in every order.                                 *)
(*   CallSpec  sort / sort_by as whole calls (the functions computed by    *)
(*             recursive operators) on longer arrays, with the threshold   *)
(*             of the source, under which such arrays are never forked.    *)
(* A slice is the pair lo, hi of 0-based offsets into `array` (the range   *)
(* [lo, hi)); Rust index k of the array is array[k + 1] here.              *)
(***************************************************************************)
EXTENDS Integers, Sequences, FiniteSets, Bags, TLC

\* ------------------------------------------------------------------ bounds

\* longest array of Spec (the call-tree state machine)
MaxLen == 4
\* longest array of CallSpec (whole calls)
MaxCallLen == 8
\* elements are 0 .. MaxVal
MaxVal == 2
\* in Spec the parallelism threshold is drawn from 1 .. MaxThreshold
MaxThreshold == 2

VARIABLES
    array,       \* the caller's Vec, the `array: &mut [T]` of every call
    input,       \* ghost: the array as it was when sort / sort_by was called
    comparator,  \* the closure handed to sort_by ("none" before the call)
    call,        \* ghost: the public call made, [fn |-> "none"] before it
    forks,       \* ghost: number of rayon::join calls made so far
    threshold,   \* the parallelism threshold of this run
    frames,      \* the active calls of do_sort / sub_sort, by call path
    phase,       \* "idle" | "running" | "returned": the public call
    result,      \* the Result<(), String>: Ok or Err(len) once returned
    compared     \* ghost of Spec: the bag of index pairs handed to the comparator

vars == <<array, input, comparator, call, forks, threshold, frames, phase, result,
         compared>>

Elements == 0 .. MaxVal

\* all arrays of length 0 .. n
ArraysUpTo(n) == UNION {[1 .. k -> Elements] : k \in 0 .. n}

\* ------------------------------------------------------------ comparators

\* Ord::cmp on integers
IntCmp(a, b) == IF a < b THEN "Less" ELSE IF a > b THEN "Greater" ELSE "Equal"

\* Ordering::then_with
ThenWith(first, second) == IF first = "Equal" THEN second ELSE first

\* An element seen as a Student of the tests: distinct elements are distinct
\* students, two of them may have the same age.
Age(v) == (v + 1) \div 2
LastName(v) == v % 2
FirstName(v) == v \div 2

\* mutant of OrderComparator: the order is ignored
OrderComparatorIgnoresOrder(order) == "cmp_ab"

\* the closure sort builds for an order
OrderComparator(order) == IF order = "Ascending" THEN "cmp_ab" ELSE "cmp_ba"

Orders == {"Ascending", "Descending"}

\* the closures the callers of sort_by supply
CallerComparators == {"by_age", "by_name"}

\* mutant of Compare: the closure of Descending does not swap its operands
CompareDescendingNotSwapped(c, a, b) ==
    CASE c = "cmp_ab" -> IntCmp(a, b)
      [] c = "cmp_ba" -> IntCmp(a, b)
      [] c = "by_age" -> IntCmp(Age(a), Age(b))
      [] c = "by_name" -> ThenWith(IntCmp(LastName(a), LastName(b)),
                                   IntCmp(FirstName(a), FirstName(b)))

\* comparator(&a, &b)
Compare(c, a, b) ==
    CASE c = "cmp_ab" -> IntCmp(a, b)
      [] c = "cmp_ba" -> IntCmp(b, a)
      [] c = "by_age" -> IntCmp(Age(a), Age(b))
      [] c = "by_name" -> ThenWith(IntCmp(LastName(a), LastName(b)),
                                   IntCmp(FirstName(a), FirstName(b)))

\* ---------------------------------------------------------------- helpers

\* usize::is_power_of_two: false for 0
RECURSIVE IsPowerOfTwo(_)
IsPowerOfTwo(n) ==
    IF n <= 0 THEN FALSE
    ELSE IF n = 1 THEN TRUE
    ELSE n % 2 = 0 /\ IsPowerOfTwo(n \div 2)

\* mutant of Swap: the second element is overwritten, the first is not
SwapOverwrites(a, i, j) == [a EXCEPT ![j + 1] = a[i + 1]]

\* slice::swap on Rust indexes i, j of the array
Swap(a, i, j) == [a EXCEPT ![i + 1] = a[j + 1], ![j + 1] = a[i + 1]]

Ok == [ok |-> TRUE]

\* "{}" of format! for a usize: its decimal digits, most significant first
DecimalDigit(d) == <<"0", "1", "2", "3", "4", "5", "6", "7", "8", "9">>[d + 1]

RECURSIVE Decimal(_)
Decimal(n) ==
    IF n < 10 THEN <<DecimalDigit(n)>>
    ELSE Append(Decimal(n \div 10), DecimalDigit(n % 10))

\* mutant of Err: the message formats the half length
ErrFormatsMidPoint(len) ==
    [ok |-> FALSE,
     message |-> <<"The length of x is not a power of two. (x.len(): ",
                   Decimal(len \div 2), ")">>]

\* Err(format!("The length of x is not a power of two. (x.len(): {})",
\* array.len())): the String as its literal parts around the formatted length
Err(len) ==
    [ok |-> FALSE,
     message |-> <<"The length of x is not a power of two. (x.len(): ",
                   Decimal(len), ")">>]

\* mutant of SwapCondition: is_asc is ignored
SwapConditionIgnoresDirection(is_asc) == "Greater"

\* swap_condition of compare_and_swap
SwapCondition(is_asc) == IF is_asc THEN "Greater" ELSE "Less"

\* mutant of CompareAndSwapAt: the comparator gets its operands the other
\* way round
CompareAndSwapAtOperandsSwapped(a, lo, hi, i, is_asc, c) ==
    LET mid_point == (hi - lo) \div 2 IN
    IF Compare(c, a[lo + mid_point + i + 1], a[lo + i + 1]) = SwapCondition(is_asc)
    THEN Swap(a, lo + i, lo + mid_point + i)
    ELSE a

\* mutant of CompareAndSwapAt: elements that compare Equal are exchanged too
CompareAndSwapAtSwapsOnEqual(a, lo, hi, i, is_asc, c) ==
    LET mid_point == (hi - lo) \div 2 IN
    IF Compare(c, a[lo + i + 1], a[lo + mid_point + i + 1]) \in {SwapCondition(is_asc), "Equal"}
    THEN Swap(a, lo + i, lo + mid_point + i)
    ELSE a

\* One iteration of the loop of compare_and_swap on the slice [lo, hi):
\* the array after comparing and maybe exchanging i and mid_point + i.
CompareAndSwapAt(a, lo, hi, i, is_asc, c) ==
    LET mid_point == (hi - lo) \div 2 IN
    IF Compare(c, a[lo + i + 1], a[lo + mid_point + i + 1]) = SwapCondition(is_asc)
    THEN Swap(a, lo + i, lo + mid_point + i)
    ELSE a

\* The two indices of the array, counted from 0, whose elements iteration i
\* of compare_and_swap on the slice [lo, hi) hands to the comparator:
\* comparator(&x[i], &x[mid_point + i])
ComparedAt(lo, hi, i) == <<lo + i, lo + (hi - lo) \div 2 + i>>

\* ------------------------------------------------- the call tree (Spec)

\* A frame is one active call of do_sort or sub_sort on the slice [lo, hi).
\* Its key in `frames` is its call path: the root do_sort is <<>>, and the
\* calls a frame makes are its path followed by 1 (first half), 2 (second
\* half) or 3 (the sub_sort call of do_sort). `forked` tells a closure of
\* rayon::join from a plain call; `i` is the loop counter of the inlined
\* compare_and_swap.
Frame(fn, lo, hi, is_asc, forked) ==
    [fn |-> fn, lo |-> lo, hi |-> hi, is_asc |-> is_asc,
     pc |-> "start", i |-> 0, forked |-> forked]

NoFrames == [p \in {} |-> 0]

Push(fs, p, fr) == [q \in DOMAIN fs \cup {p} |-> IF q = p THEN fr ELSE fs[q]]

Pop(fs, p) == [q \in DOMAIN fs \ {p} |-> fs[q]]

\* the calls made by frame p that have not returned yet
Children(p) ==
    {q \in DOMAIN frames : Len(q) = Len(p) + 1 /\ SubSeq(q, 1, Len(p)) = p}

\* the caller of frame p
Parent(p) == SubSeq(p, 1, Len(p) - 1)

\* array.len() and array.len() / 2 of the slice of frame p
SliceLen(p) == frames[p].hi - frames[p].lo
MidPoint(p) == SliceLen(p) \div 2

\* the offset at which split_at_mut(mid_point) cuts the slice of frame p
SplitAt(p) == frames[p].lo + MidPoint(p)

\* The constant of the source. Forking at it needs arrays of 8192 elements
\* and more, so Spec runs the same code with `threshold` drawn from
\* 1 .. MaxThreshold, where arrays of 2 and 4 elements take both branches of
\* both tests; CallSpec keeps the value of the source.
PARALLEL_THRESHOLD == 4096

\* mutant of DoSortForks: do_sort forks at the threshold already
DoSortForksAtThreshold(mid_point) == mid_point >= threshold

\* do_sort forks its halves: mid_point > PARALLEL_THRESHOLD
DoSortForks(mid_point) == mid_point > threshold

\* sub_sort forks its halves: mid_point >= PARALLEL_THRESHOLD
SubSortForks(mid_point) == mid_point >= threshold

\* mutant of Joined: the join returns as soon as one closure has returned
JoinedAfterEither(p) == Cardinality(Children(p)) <= 1

\* rayon::join returns: both closures have returned
Joined(p) == Children(p) = {}

\* a plain call made by frame p has returned
Returned(p) == Children(p) = {}

\* sort_by: the length check, then the call of do_sort(array, true, comparator)
SortByBody(c) ==
    /\ phase = "idle"
    /\ comparator' = c
    /\ input' = array
    /\ IF IsPowerOfTwo(Len(array))
       THEN /\ frames' = Push(NoFrames, <<>>, Frame("do_sort", 0, Len(array), TRUE, FALSE))
            /\ phase' = "running"
            /\ result' = result
       ELSE /\ result' = Err(Len(array))
            /\ phase' = "returned"
            /\ frames' = frames
    /\ UNCHANGED <<array, forks, threshold, compared>>

\* sort(array, order): sort_by with the closure of the order
SortCall(order) ==
    /\ call' = [fn |-> "sort", order |-> order]
    /\ SortByBody(OrderComparator(order))

\* sort_by(array, comparator) called directly
SortByCall(c) ==
    /\ call' = [fn |-> "sort_by", comparator |-> c]
    /\ SortByBody(c)

\* do_sort has returned to sort_by, which returns Ok(())
SortByReturn ==
    /\ phase = "running"
    /\ frames = NoFrames
    /\ result' = Ok
    /\ phase' = "returned"
    /\ UNCHANGED <<array, input, comparator, call, forks, threshold, frames, compared>>

\* do_sort, array.len() <= 1: nothing to do, return
DoSortBase(p) ==
    /\ frames[p].fn = "do_sort" /\ frames[p].pc = "start"
    /\ SliceLen(p) <= 1
    /\ frames' = Pop(frames, p)
    /\ UNCHANGED <<array, input, comparator, call, forks, threshold, phase, result, compared>>

\* mutant of DoSortFork: the forked branch sorts both halves ascending
DoSortForkBothAscending(p) ==
    /\ frames[p].fn = "do_sort" /\ frames[p].pc = "start"
    /\ SliceLen(p) > 1
    /\ DoSortForks(MidPoint(p))
    /\ frames' = Push(Push([frames EXCEPT ![p].pc = "join"],
                           Append(p, 1), Frame("do_sort", frames[p].lo, SplitAt(p), TRUE, TRUE)),
                      Append(p, 2), Frame("do_sort", SplitAt(p), frames[p].hi, TRUE, TRUE))
    /\ forks' = forks + 1
    /\ UNCHANGED <<array, input, comparator, call, threshold, phase, result, compared>>

\* do_sort, mid_point > PARALLEL_THRESHOLD: rayon::join of the two halves
DoSortFork(p) ==
    /\ frames[p].fn = "do_sort" /\ frames[p].pc = "start"
    /\ SliceLen(p) > 1
    /\ DoSortForks(MidPoint(p))
    /\ frames' = Push(Push([frames EXCEPT ![p].pc = "join"],
                           Append(p, 1), Frame("do_sort", frames[p].lo, SplitAt(p), TRUE, TRUE)),
                      Append(p, 2), Frame("do_sort", SplitAt(p), frames[p].hi, FALSE, TRUE))
    /\ forks' = forks + 1
    /\ UNCHANGED <<array, input, comparator, call, threshold, phase, result, compared>>

\* do_sort, otherwise: do_sort(first, true, comparator) on this thread
DoSortFirst(p) ==
    /\ frames[p].fn = "do_sort" /\ frames[p].pc = "start"
    /\ SliceLen(p) > 1
    /\ ~DoSortForks(MidPoint(p))
    /\ frames' = Push([frames EXCEPT ![p].pc = "first"],
                      Append(p, 1), Frame("do_sort", frames[p].lo, SplitAt(p), TRUE, FALSE))
    /\ UNCHANGED <<array, input, comparator, call, forks, threshold, phase, result, compared>>

\* mutant of DoSortSecond: the second half is sorted ascending too
DoSortSecondAscending(p) ==
    /\ frames[p].fn = "do_sort" /\ frames[p].pc = "first"
    /\ Returned(p)
    /\ frames' = Push([frames EXCEPT ![p].pc = "second"],
                      Append(p, 2), Frame("do_sort", SplitAt(p), frames[p].hi, TRUE, FALSE))
    /\ UNCHANGED <<array, input, comparator, call, forks, threshold, phase, result, compared>>

\* do_sort: the first half has returned, do_sort(second, false, comparator)
DoSortSecond(p) ==
    /\ frames[p].fn = "do_sort" /\ frames[p].pc = "first"
    /\ Returned(p)
    /\ frames' = Push([frames EXCEPT ![p].pc = "second"],
                      Append(p, 2), Frame("do_sort", SplitAt(p), frames[p].hi, FALSE, FALSE))
    /\ UNCHANGED <<array, input, comparator, call, forks, threshold, phase, result, compared>>

\* do_sort: both halves are done, sub_sort(array, is_asc, comparator)
DoSortMerge(p) ==
    /\ frames[p].fn = "do_sort"
    /\ \/ frames[p].pc = "join" /\ Joined(p)
       \/ frames[p].pc = "second" /\ Returned(p)
    /\ frames' = Push([frames EXCEPT ![p].pc = "merge"],
                      Append(p, 3),
                      Frame("sub_sort", frames[p].lo, frames[p].hi, frames[p].is_asc, FALSE))
    /\ UNCHANGED <<array, input, comparator, call, forks, threshold, phase, result, compared>>

\* do_sort: sub_sort has returned, return
DoSortReturn(p) ==
    /\ frames[p].fn = "do_sort" /\ frames[p].pc = "merge"
    /\ Returned(p)
    /\ frames' = Pop(frames, p)
    /\ UNCHANGED <<array, input, comparator, call, forks, threshold, phase, result, compared>>

\* sub_sort, array.len() <= 1: return
SubSortBase(p) ==
    /\ frames[p].fn = "sub_sort" /\ frames[p].pc = "start"
    /\ SliceLen(p) <= 1
    /\ frames' = Pop(frames, p)
    /\ UNCHANGED <<array, input, comparator, call, forks, threshold, phase, result, compared>>

\* mutant of SubSortEnter: a slice that is in order already is returned as
\* it is, without a pass
SubSortEnterSkipsOrdered(p) ==
    /\ frames[p].fn = "sub_sort" /\ frames[p].pc = "start"
    /\ SliceLen(p) > 1
    /\ IF \A k \in frames[p].lo + 1 .. frames[p].hi - 1 :
             Compare(comparator, array[k], array[k + 1]) # SwapCondition(frames[p].is_asc)
       THEN frames' = Pop(frames, p)
       ELSE frames' = [frames EXCEPT ![p].pc = "cas", ![p].i = 0]
    /\ UNCHANGED <<array, input, comparator, call, forks, threshold, phase, result, compared>>

\* sub_sort, array.len() > 1: enter compare_and_swap, its loop at i = 0
SubSortEnter(p) ==
    /\ frames[p].fn = "sub_sort" /\ frames[p].pc = "start"
    /\ SliceLen(p) > 1
    /\ frames' = [frames EXCEPT ![p].pc = "cas", ![p].i = 0]
    /\ UNCHANGED <<array, input, comparator, call, forks, threshold, phase, result, compared>>

\* mutant of CompareAndSwapStep: the loop counter does not advance
CompareAndSwapStepStuck(p) ==
    /\ frames[p].fn = "sub_sort" /\ frames[p].pc = "cas"
    /\ frames[p].i < MidPoint(p)
    /\ array' = CompareAndSwapAt(array, frames[p].lo, frames[p].hi, frames[p].i,
                                 frames[p].is_asc, comparator)
    /\ UNCHANGED <<frames, input, comparator, call, forks, threshold, phase, result, compared>>

\* compare_and_swap: one iteration of `for i in 0..mid_point`
CompareAndSwapStep(p) ==
    /\ frames[p].fn = "sub_sort" /\ frames[p].pc = "cas"
    /\ frames[p].i < MidPoint(p)
    /\ array' = CompareAndSwapAt(array, frames[p].lo, frames[p].hi, frames[p].i,
                                 frames[p].is_asc, comparator)
    /\ compared' = compared (+) SetToBag({ComparedAt(frames[p].lo, frames[p].hi, frames[p].i)})
    /\ frames' = [frames EXCEPT ![p].i = @ + 1]
    /\ UNCHANGED <<input, comparator, call, forks, threshold, phase, result>>

\* mutant of SubSortFork: both closures are given the first half
SubSortForkSameHalf(p) ==
    /\ frames[p].fn = "sub_sort" /\ frames[p].pc = "cas"
    /\ frames[p].i = MidPoint(p)
    /\ SubSortForks(MidPoint(p))
    /\ frames' = Push(Push([frames EXCEPT ![p].pc = "join"],
                           Append(p, 1),
                           Frame("sub_sort", frames[p].lo, SplitAt(p), frames[p].is_asc, TRUE)),
                      Append(p, 2),
                      Frame("sub_sort", frames[p].lo, SplitAt(p), frames[p].is_asc, TRUE))
    /\ forks' = forks + 1
    /\ UNCHANGED <<array, input, comparator, call, threshold, phase, result, compared>>

\* sub_sort after compare_and_swap, mid_point >= PARALLEL_THRESHOLD: rayon::join
SubSortFork(p) ==
    /\ frames[p].fn = "sub_sort" /\ frames[p].pc = "cas"
    /\ frames[p].i = MidPoint(p)
    /\ SubSortForks(MidPoint(p))
    /\ frames' = Push(Push([frames EXCEPT ![p].pc = "join"],
                           Append(p, 1),
                           Frame("sub_sort", frames[p].lo, SplitAt(p), frames[p].is_asc, TRUE)),
                      Append(p, 2),
                      Frame("sub_sort", SplitAt(p), frames[p].hi, frames[p].is_asc, TRUE))
    /\ forks' = forks + 1
    /\ UNCHANGED <<array, input, comparator, call, threshold, phase, result, compared>>

\* sub_sort after compare_and_swap, otherwise: sub_sort(first, ...) on this thread
SubSortFirst(p) ==
    /\ frames[p].fn = "sub_sort" /\ frames[p].pc = "cas"
    /\ frames[p].i = MidPoint(p)
    /\ ~SubSortForks(MidPoint(p))
    /\ frames' = Push([frames EXCEPT ![p].pc = "first"],
                      Append(p, 1),
                      Frame("sub_sort", frames[p].lo, SplitAt(p), frames[p].is_asc, FALSE))
    /\ UNCHANGED <<array, input, comparator, call, forks, threshold, phase, result, compared>>

\* sub_sort: the first half has returned, sub_sort(second, ...)
SubSortSecond(p) ==
    /\ frames[p].fn = "sub_sort" /\ frames[p].pc = "first"
    /\ Returned(p)
    /\ frames' = Push([frames EXCEPT ![p].pc = "second"],
                      Append(p, 2),
                      Frame("sub_sort", SplitAt(p), frames[p].hi, frames[p].is_asc, FALSE))
    /\ UNCHANGED <<array, input, comparator, call, forks, threshold, phase, result, compared>>

\* sub_sort: both halves are done, return
SubSortReturn(p) ==
    /\ frames[p].fn = "sub_sort"
    /\ \/ frames[p].pc = "join" /\ Joined(p)
       \/ frames[p].pc = "second" /\ Returned(p)
    /\ frames' = Pop(frames, p)
    /\ UNCHANGED <<array, input, comparator, call, forks, threshold, phase, result, compared>>

Init ==
    /\ array \in ArraysUpTo(MaxLen)
    /\ input = array
    /\ comparator = "none"
    /\ call = [fn |-> "none"]
    /\ forks = 0
    /\ threshold \in 1 .. MaxThreshold
    /\ frames = NoFrames
    /\ phase = "idle"
    /\ result = [returned |-> FALSE]
    /\ compared = EmptyBag

Next ==
    \/ \E order \in Orders : SortCall(order)
    \/ \E c \in CallerComparators : SortByCall(c)
    \/ SortByReturn
    \/ \E p \in DOMAIN frames : DoSortBase(p)
    \/ \E p \in DOMAIN frames : DoSortFork(p)
    \/ \E p \in DOMAIN frames : DoSortFirst(p)
    \/ \E p \in DOMAIN frames : DoSortSecond(p)
    \/ \E p \in DOMAIN frames : DoSortMerge(p)
    \/ \E p \in DOMAIN frames : DoSortReturn(p)
    \/ \E p \in DOMAIN frames : SubSortBase(p)
    \/ \E p \in DOMAIN frames : SubSortEnter(p)
    \/ \E p \in DOMAIN frames : CompareAndSwapStep(p)
    \/ \E p \in DOMAIN frames : SubSortFork(p)
    \/ \E p \in DOMAIN frames : SubSortFirst(p)
    \/ \E p \in DOMAIN frames : SubSortSecond(p)
    \/ \E p \in DOMAIN frames : SubSortReturn(p)

Spec == Init /\ [][Next]_vars

\* Spec with the scheduling of the code: the calling thread and rayon's
\* workers keep running, so a call tree with an enabled step takes a step.
FairSpec == Spec /\ WF_vars(Next)

\* ------------------------------------------------ whole calls (CallSpec)

\* The value of a one-element set. Statements that follow one another are
\* written {g(y) : y \in {f(x)}}: f(x) is evaluated to a value y first, then
\* g(y) (TLC evaluates a plain operator argument only where it is used).
TheOnly(S) == CHOOSE r \in S : TRUE

\* mutant of CompareAndSwapFrom: the loop advances by two
RECURSIVE CompareAndSwapFromEveryOther(_, _, _, _, _, _)
CompareAndSwapFromEveryOther(a, lo, hi, i, is_asc, c) ==
    IF i < (hi - lo) \div 2
    THEN TheOnly({CompareAndSwapFromEveryOther(next, lo, hi, i + 2, is_asc, c) :
                    next \in {CompareAndSwapAt(a, lo, hi, i, is_asc, c)}})
    ELSE a

\* compare_and_swap from iteration i of its loop to the end
RECURSIVE CompareAndSwapFrom(_, _, _, _, _, _)
CompareAndSwapFrom(a, lo, hi, i, is_asc, c) ==
    IF i < (hi - lo) \div 2
    THEN TheOnly({CompareAndSwapFrom(next, lo, hi, i + 1, is_asc, c) :
                    next \in {CompareAndSwapAt(a, lo, hi, i, is_asc, c)}})
    ELSE a

\* mutant of CompareAndSwap: the loop starts at 1
CompareAndSwapSkipsFirst(a, lo, hi, is_asc, c) == CompareAndSwapFrom(a, lo, hi, 1, is_asc, c)

\* compare_and_swap on the slice [lo, hi)
CompareAndSwap(a, lo, hi, is_asc, c) == CompareAndSwapFrom(a, lo, hi, 0, is_asc, c)

\* mutant of SubSort: the second half is left as the pass left it
RECURSIVE SubSortFirstHalfOnly(_, _, _, _, _)
SubSortFirstHalfOnly(a, lo, hi, is_asc, c) ==
    IF hi - lo > 1
    THEN LET mid == lo + (hi - lo) \div 2 IN
         TheOnly({SubSortFirstHalfOnly(swapped, lo, mid, is_asc, c) :
                    swapped \in {CompareAndSwap(a, lo, hi, is_asc, c)}})
    ELSE a

\* sub_sort on the slice [lo, hi), its halves one after the other
RECURSIVE SubSort(_, _, _, _, _)
SubSort(a, lo, hi, is_asc, c) ==
    IF hi - lo > 1
    THEN LET mid == lo + (hi - lo) \div 2 IN
         TheOnly({SubSort(first, mid, hi, is_asc, c) :
                    first \in {SubSort(swapped, lo, mid, is_asc, c) :
                        swapped \in {CompareAndSwap(a, lo, hi, is_asc, c)}}})
    ELSE a

\* mutant of DoSort: the second half is sorted in the direction of the first
RECURSIVE DoSortSameDirection(_, _, _, _, _)
DoSortSameDirection(a, lo, hi, is_asc, c) ==
    IF hi - lo > 1
    THEN LET mid == lo + (hi - lo) \div 2 IN
         TheOnly({SubSort(second, lo, hi, is_asc, c) :
                    second \in {DoSortSameDirection(first, mid, hi, TRUE, c) :
                        first \in {DoSortSameDirection(a, lo, mid, TRUE, c)}}})
    ELSE a

\* do_sort on the slice [lo, hi), its halves one after the other
RECURSIVE DoSort(_, _, _, _, _)
DoSort(a, lo, hi, is_asc, c) ==
    IF hi - lo > 1
    THEN LET mid == lo + (hi - lo) \div 2 IN
         TheOnly({SubSort(second, lo, hi, is_asc, c) :
                    second \in {DoSort(first, mid, hi, FALSE, c) :
                        first \in {DoSort(a, lo, mid, TRUE, c)}}})
    ELSE a

\* mutant of SortBy: do_sort runs before the length is checked
SortBySortsBeforeCheck(a, c) ==
    IF IsPowerOfTwo(Len(a))
    THEN [array |-> DoSort(a, 0, Len(a), TRUE, c), result |-> Ok]
    ELSE [array |-> DoSort(a, 0, Len(a), TRUE, c), result |-> Err(Len(a))]

\* sort_by as a function: the array it leaves and the Result it returns
SortBy(a, c) ==
    IF IsPowerOfTwo(Len(a))
    THEN [array |-> DoSort(a, 0, Len(a), TRUE, c), result |-> Ok]
    ELSE [array |-> a, result |-> Err(Len(a))]

\* a whole call of sort_by(array, c)
SortByWholeBody(c) ==
    /\ phase = "idle"
    /\ comparator' = c
    /\ input' = array
    /\ \E r \in {SortBy(array, c)} :
          /\ array' = r.array
          /\ result' = r.result
    /\ phase' = "returned"
    /\ UNCHANGED <<forks, threshold, frames, compared>>

\* a whole call of sort(array, order)
SortWhole(order) ==
    /\ call' = [fn |-> "sort", order |-> order]
    /\ SortByWholeBody(OrderComparator(order))

\* a whole call of sort_by(array, comparator)
SortByWhole(c) ==
    /\ call' = [fn |-> "sort_by", comparator |-> c]
    /\ SortByWholeBody(c)

CallInit ==
    /\ array \in ArraysUpTo(MaxCallLen)
    /\ input = array
    /\ comparator = "none"
    /\ call = [fn |-> "none"]
    /\ forks = 0
    /\ threshold = PARALLEL_THRESHOLD
    /\ frames = NoFrames
    /\ phase = "idle"
    /\ result = [returned |-> FALSE]
    /\ compared = EmptyBag

CallNext ==
    \/ \E order \in Orders : SortWhole(order)
    \/ \E c \in CallerComparators : SortByWhole(c)

CallSpec == CallInit /\ [][CallNext]_vars

\* ------------------------------------ calls of the merge step (MergeSpec)

\* sub_sort and compare_and_swap are private: sort_by lets only arrays whose
\* length is a power of two reach them, and every slice they are handed is
\* such an array cut in halves. MergeSpec calls each of them once on a whole
\* array of such a length.
SliceArrays ==
    UNION {[1 .. k -> Elements] : k \in {n \in 1 .. MaxCallLen : IsPowerOfTwo(n)}}

\* every comparator the merge step is run with: the two closures of sort
\* and the closures of the callers of sort_by
Comparators == {OrderComparator(order) : order \in Orders} \cup CallerComparators

\* one call compare_and_swap(array, is_asc, comparator)
CompareAndSwapCall(is_asc, c) ==
    /\ phase = "idle"
    /\ call' = [fn |-> "compare_and_swap", is_asc |-> is_asc]
    /\ comparator' = c
    /\ input' = array
    /\ array' = CompareAndSwap(array, 0, Len(array), is_asc, c)
    /\ phase' = "returned"
    /\ UNCHANGED <<forks, threshold, frames, result, compared>>

\* one call sub_sort(array, is_asc, comparator)
SubSortCall(is_asc, c) ==
    /\ phase = "idle"
    /\ call' = [fn |-> "sub_sort", is_asc |-> is_asc]
    /\ comparator' = c
    /\ input' = array
    /\ array' = SubSort(array, 0, Len(array), is_asc, c)
    /\ phase' = "returned"
    /\ UNCHANGED <<forks, threshold, frames, result, compared>>

MergeInit ==
    /\ array \in SliceArrays
    /\ input = array
    /\ comparator = "none"
    /\ call = [fn |-> "none"]
    /\ forks = 0
    /\ threshold = PARALLEL_THRESHOLD
    /\ frames = NoFrames
    /\ phase = "idle"
    /\ result = [returned |-> FALSE]
    /\ compared = EmptyBag

MergeNext ==
    \/ \E is_asc \in BOOLEAN, c \in Comparators : CompareAndSwapCall(is_asc, c)
    \/ \E is_asc \in BOOLEAN, c \in Comparators : SubSortCall(is_asc, c)

MergeSpec == MergeInit /\ [][MergeNext]_vars

\* ----------------------------------------------------------------- claims

\* n = 2^k for some k >= 0, stated without the code's test
IsLengthPowerOfTwo(n) == \E k \in 0 .. n : 2 ^ k = n

\* for all i < j, comparator(a[i], a[j]) is not Greater
IsOrderedBy(a, c) ==
    \A i, j \in 1 .. Len(a) : i < j => Compare(c, a[i], a[j]) # "Greater"

\* the multiset of the elements of a: how often each element occurs
Occurrences(a) == [v \in Elements |-> Cardinality({i \in 1 .. Len(a) : a[i] = v})]

\* some element occurs twice in a
HasDuplicates(a) == \E i, j \in 1 .. Len(a) : i # j /\ a[i] = a[j]

\* C1: a sequence whose length is neither 0 nor a power of two makes
\* sort / sort_by return the length error, and the sequence is left
\* element for element as it was.
C1_InvalidLengthRejected ==
    (phase = "returned" /\ Len(input) # 0 /\ ~IsLengthPowerOfTwo(Len(input)))
        => (~result.ok /\ array = input)

\* C1 witness: the test's [10, 30, 11] (as ranks) has been rejected
C1_Witness ==
    /\ phase = "returned"
    /\ input = <<0, 2, 1>>
    /\ ~result.ok

\* C2 as claimed: every sequence of length 0 or a power of two is sorted
\* with success; the empty sequence is not rejected.
C2_ZeroOrPowerOfTwoSucceeds ==
    (phase = "returned" /\ (Len(input) = 0 \/ IsLengthPowerOfTwo(Len(input))))
        => result = Ok

\* C3: after a successful sort(x, Ascending), x is non-decreasing: for all
\* i < j, x[i] <= x[j].
C3_AscendingIsNonDecreasing ==
    (phase = "returned" /\ call = [fn |-> "sort", order |-> "Ascending"] /\ result = Ok)
        => \A i, j \in 1 .. Len(array) : i < j => array[i] <= array[j]

\* C3 witness: eight elements with duplicates, out of order, sorted ascending
C3_Witness ==
    /\ phase = "returned"
    /\ call = [fn |-> "sort", order |-> "Ascending"]
    /\ result = Ok
    /\ Len(input) = 8
    /\ HasDuplicates(input)
    /\ array # input

\* C4: after a successful sort(x, Descending), x is non-increasing: for all
\* i < j, x[i] >= x[j].
C4_DescendingIsNonIncreasing ==
    (phase = "returned" /\ call = [fn |-> "sort", order |-> "Descending"] /\ result = Ok)
        => \A i, j \in 1 .. Len(array) : i < j => array[i] >= array[j]

\* C4 witness: eight elements with duplicates, out of order, sorted descending
C4_Witness ==
    /\ phase = "returned"
    /\ call = [fn |-> "sort", order |-> "Descending"]
    /\ result = Ok
    /\ Len(input) = 8
    /\ HasDuplicates(input)
    /\ array # input

\* C5: after a successful sort / sort_by the sequence holds the same
\* multiset of elements as before: nothing is created, lost or duplicated.
C5_MultisetPreserved ==
    (phase = "returned" /\ result = Ok) => Occurrences(array) = Occurrences(input)

\* C5 witness: a successful call that moved elements of an 8-element array
C5_Witness ==
    /\ phase = "returned"
    /\ result = Ok
    /\ Len(input) = 8
    /\ array # input
\* C6: whatever the fork decisions and however the steps of the forked
\* closures interleave, a successful call leaves the sequence that the
\* all-sequential execution (first half, then second half) leaves.
C6_ForkedEqualsSequential ==
    (phase = "returned" /\ result = Ok)
        => array = DoSort(input, 0, Len(input), TRUE, comparator)

\* C6 witness: a call that forked and moved elements of a 4-element array
C6_Witness ==
    /\ phase = "returned"
    /\ result = Ok
    /\ forks > 1
    /\ Len(input) = 4
    /\ array # input

\* C7: after a successful sort_by the sequence is ordered by the caller's
\* comparator: for all i < j, comparator(x[i], x[j]) is not Greater.
C7_OrderedByComparator ==
    (phase = "returned" /\ call.fn = "sort_by" /\ result = Ok)
        => IsOrderedBy(array, call.comparator)

\* C7 witness: eight students, two different ones of the same age among
\* them, sorted by age
C7_Witness ==
    /\ phase = "returned"
    /\ call = [fn |-> "sort_by", comparator |-> "by_age"]
    /\ result = Ok
    /\ Len(input) = 8
    /\ \E i, j \in 1 .. 8 :
          input[i] # input[j] /\ Compare("by_age", input[i], input[j]) = "Equal"
    /\ array # input

\* the comparator calls two elements of a Equal only when they are the same
EqualOnlyIfSame(a, c) ==
    \A i, j \in 1 .. Len(a) : Compare(c, a[i], a[j]) = "Equal" => a[i] = a[j]

\* C8 as claimed: a sequence already ordered by the comparator is left
\* identical, position by position, by a successful sort / sort_by with
\* that comparator.
C8_SortedInputUnchanged ==
    (phase = "returned" /\ result = Ok /\ IsOrderedBy(input, comparator))
        => array = input

\* C8 amended: the same, for sequences whose elements the comparator calls
\* Equal only when they are the same element.
C8_SortedInputUnchangedIfEqualMeansSame ==
    (phase = "returned" /\ result = Ok /\ IsOrderedBy(input, comparator)
        /\ EqualOnlyIfSame(input, comparator))
        => array = input

\* C8 witness: eight ordered elements, some repeated and not all the same,
\* sorted again
C8_Witness ==
    /\ phase = "returned"
    /\ result = Ok
    /\ Len(input) = 8
    /\ IsOrderedBy(input, comparator)
    /\ EqualOnlyIfSame(input, comparator)
    /\ HasDuplicates(input)
    /\ input[1] # input[8]
    /\ array = input

\* C9: while a closure of a rayon::join is active, the call that forked it
\* is still there, waiting at the join (it has not started its merge phase
\* and has not returned); and once sort / sort_by has returned no call is
\* active.
C9_StructuredForkJoin ==
    /\ \A p \in DOMAIN frames :
          frames[p].forked =>
              (Parent(p) \in DOMAIN frames /\ frames[Parent(p)].pc = "join")
    /\ phase = "returned" => frames = NoFrames

\* C9 witness: one closure of a join has returned, the other is running and
\* the forking call waits
C9_Witness ==
    \E p \in DOMAIN frames :
        /\ frames[p].pc = "join"
        /\ Cardinality(Children(p)) = 1

\* C10: once the length check has passed, the call eventually returns
\* Ok(()) (under FairSpec): no abort, no join that never returns, no
\* recursion that misses the base case.
C10_SortCompletes ==
    (phase = "running") ~> (phase = "returned" /\ result = Ok)

\* C10 witness: a call that went through joins has returned Ok
C10_Witness ==
    /\ phase = "returned"
    /\ result = Ok
    /\ forks > 2
    /\ Len(input) = 4
\* C11: the comparator sort uses for Descending, applied to (a, b), returns
\* what the comparator it uses for Ascending returns for (b, a).
C11_DescendingIsAscendingSwapped ==
    (phase = "returned" /\ call.fn = "sort" /\ call.order = "Descending")
        => \A a, b \in Elements :
              Compare(comparator, a, b) = Compare(OrderComparator("Ascending"), b, a)

\* C11 witness: a Descending sort has run its comparator on a sequence it
\* had to reorder
C11_Witness ==
    /\ phase = "returned"
    /\ call = [fn |-> "sort", order |-> "Descending"]
    /\ result = Ok
    /\ Len(input) = 8
    /\ array # input

\* the number a sequence of decimal digits denotes
DigitValue(ch) == CHOOSE d \in 0 .. 9 : DecimalDigit(d) = ch

RECURSIVE ParseDecimal(_)
ParseDecimal(digits) ==
    IF digits = <<>> THEN 0
    ELSE 10 * ParseDecimal(SubSeq(digits, 1, Len(digits) - 1))
         + DigitValue(digits[Len(digits)])

\* C12: whenever sort / sort_by fails, the error it returns names the
\* actual length of the sequence that was passed.
C12_ErrorNamesTheLength ==
    (phase = "returned" /\ ~result.ok)
        => (Len(result.message) = 3 /\ ParseDecimal(result.message[2]) = Len(input))

\* C12 witness: a sequence of 6 elements has been rejected
C12_Witness ==
    /\ phase = "returned"
    /\ ~result.ok
    /\ Len(input) = 6
\* the positions of the array, counted from 1, of the slice of frame p
Slice(p) == frames[p].lo + 1 .. frames[p].hi

\* one call path is the beginning of the other: caller and (indirect) callee
OnOneStack(p, q) ==
    \/ Len(p) <= Len(q) /\ SubSeq(q, 1, Len(p)) = p
    \/ Len(q) <= Len(p) /\ SubSeq(p, 1, Len(q)) = q

\* two calls that are not on one stack run in different closures of a join
ConcurrentSlicesDisjoint ==
    \A p, q \in DOMAIN frames :
        ~OnOneStack(p, q) => Slice(p) \cap Slice(q) = {}

\* the slice a call hands to a callee is part of its own slice
CalleeSliceWithinCaller ==
    \A p \in DOMAIN frames :
        p # <<>> => (Parent(p) \in DOMAIN frames /\ Slice(p) \subseteq Slice(Parent(p)))

\* the positions, counted from 1, this step hands to the comparator or writes
Touched ==
    {k \in 1 .. Len(array) : array'[k] # array[k]}
    \cup {pr[1] + 1 : pr \in {x \in BagToSet(compared') : CopiesIn(x, compared') > CopiesIn(x, compared)}}
    \cup {pr[2] + 1 : pr \in {x \in BagToSet(compared') : CopiesIn(x, compared') > CopiesIn(x, compared)}}

\* what a step touches lies in the slice of the call whose loop advanced
TouchesOwnSlice ==
    (phase = "running" /\ Touched # {})
        => \E p \in DOMAIN frames :
              /\ p \in DOMAIN frames'
              /\ frames'[p].i = frames[p].i + 1
              /\ \A q \in DOMAIN frames \ {p} : q \in DOMAIN frames' /\ frames'[q] = frames[q]
              /\ Touched \subseteq Slice(p)

\* C13: calls that run concurrently work on disjoint index ranges, and a call
\* on [lo, hi) reads and writes no position outside [lo, hi).
C13_DisjointSlices ==
    /\ [](ConcurrentSlicesDisjoint /\ CalleeSliceWithinCaller)
    /\ [][TouchesOwnSlice]_vars

\* C13 witness: two sub_sort calls in different closures of a join are both
\* in the middle of compare_and_swap, and elements have been exchanged
C13_Witness ==
    \E p, q \in DOMAIN frames :
        /\ ~OnOneStack(p, q)
        /\ frames[p].pc = "cas" /\ frames[p].i = 1
        /\ frames[q].pc = "cas" /\ frames[q].i = 1
        /\ array # input
\* positions lo + 1 .. hi of a, in the order of c, never step down / never
\* step up
NonDecreasingOn(a, lo, hi, c) ==
    \A k \in lo + 1 .. hi - 1 : Compare(c, a[k], a[k + 1]) # "Greater"

NonIncreasingOn(a, lo, hi, c) ==
    \A k \in lo + 1 .. hi - 1 : Compare(c, a[k], a[k + 1]) # "Less"

\* frame p is a do_sort call on more than one element whose two halves are
\* done and whose sub_sort call comes next
AboutToMerge(p) ==
    /\ frames[p].fn = "do_sort"
    /\ SliceLen(p) > 1
    /\ frames[p].pc \in {"join", "second"}
    /\ Children(p) = {}

\* C14: in every do_sort call on more than one element, when the two halves
\* are done and sub_sort is about to start, the first half of the slice is
\* non-decreasing and the second half non-increasing, by the comparator.
C14_HalvesOppositelyOrdered ==
    \A p \in DOMAIN frames :
        AboutToMerge(p)
            => /\ NonDecreasingOn(array, frames[p].lo, SplitAt(p), comparator)
               /\ NonIncreasingOn(array, SplitAt(p), frames[p].hi, comparator)

\* C14 witness: a do_sort call on 4 elements is about to merge, its halves
\* were not ordered this way at the start and neither half is constant
C14_Witness ==
    \E p \in DOMAIN frames :
        /\ AboutToMerge(p)
        /\ SliceLen(p) = 4
        /\ ~NonDecreasingOn(input, frames[p].lo, SplitAt(p), comparator)
        /\ ~NonIncreasingOn(input, SplitAt(p), frames[p].hi, comparator)
        /\ array[1] # array[2] /\ array[3] # array[4]
\* Going round a from position k to the next one, and from the last position
\* back to the first: the positions after which a steps up / steps down, by c
NextAround(a, k) == (k % Len(a)) + 1
StepsUp(a, c) == {k \in 1 .. Len(a) : Compare(c, a[k], a[NextAround(a, k)]) = "Less"}
StepsDown(a, c) == {k \in 1 .. Len(a) : Compare(c, a[k], a[NextAround(a, k)]) = "Greater"}

\* how many steps round a sequence of n elements lie between position s and
\* position k
StepsFrom(n, s, k) == (k - s + n) % n

\* The rotation that starts at position s of a sequence of n elements with
\* the steps up `up` and the steps down `down` rises then falls: leaving out
\* the step from its last element back to its first, each of its steps up
\* comes before each of its steps down.
RisesThenFallsFrom(n, s, up, down) ==
    \A u \in up, d \in down :
        \/ StepsFrom(n, s, u) = n - 1
        \/ StepsFrom(n, s, d) = n - 1
        \/ StepsFrom(n, s, u) < StepsFrom(n, s, d)

\* a is bitonic by c: a sequence that rises then falls, or a rotation of one
Bitonic(a, c) ==
    \/ Len(a) = 0
    \/ \E up \in {StepsUp(a, c)}, down \in {StepsDown(a, c)} :
          \E s \in 1 .. Len(a) : RisesThenFallsFrom(Len(a), s, up, down)

\* a itself rises then falls
RisesThenFalls(a, c) ==
    \/ Len(a) = 0
    \/ RisesThenFallsFrom(Len(a), 1, StepsUp(a, c), StepsDown(a, c))

\* the private function fn has been called with direction is_asc on a
\* bitonic array and has returned
ReturnedOnBitonic(fn, is_asc) ==
    /\ phase = "returned"
    /\ call = [fn |-> fn, is_asc |-> is_asc]
    /\ Bitonic(input, comparator)

\* C15: sub_sort(array, is_asc) on a bitonic array whose length is a power
\* of two leaves it non-decreasing by the comparator when is_asc is true and
\* non-increasing when is_asc is false.
C15_SubSortOrdersBitonic ==
    /\ ReturnedOnBitonic("sub_sort", TRUE)
          => NonDecreasingOn(array, 0, Len(array), comparator)
    /\ ReturnedOnBitonic("sub_sort", FALSE)
          => NonIncreasingOn(array, 0, Len(array), comparator)

\* C15 witness: sub_sort has ordered 8 elements that rose and fell, in each
\* direction
C15_Witness ==
    /\ phase = "returned"
    /\ call.fn = "sub_sort"
    /\ Len(input) = 8
    /\ Bitonic(input, comparator)
    /\ ~NonDecreasingOn(input, 0, 8, comparator)
    /\ ~NonIncreasingOn(input, 0, 8, comparator)
    /\ array # input

\* C16: after compare_and_swap on a bitonic array with is_asc true no
\* element of the lower half is Greater than an element of the upper half;
\* with is_asc false no element of the lower half is Less than one of the
\* upper half.
C16_PassSeparatesHalves ==
    /\ ReturnedOnBitonic("compare_and_swap", TRUE)
          => \A i \in 1 .. Len(array) \div 2 :
                \A j \in Len(array) \div 2 + 1 .. Len(array) :
                    Compare(comparator, array[i], array[j]) # "Greater"
    /\ ReturnedOnBitonic("compare_and_swap", FALSE)
          => \A i \in 1 .. Len(array) \div 2 :
                \A j \in Len(array) \div 2 + 1 .. Len(array) :
                    Compare(comparator, array[i], array[j]) # "Less"

\* C16 witness: a pass over 8 bitonic elements has exchanged some pairs and
\* left others
C16_Witness ==
    /\ phase = "returned"
    /\ call.fn = "compare_and_swap"
    /\ Len(input) = 8
    /\ Bitonic(input, comparator)
    /\ \E i \in 1 .. 4 : array[i] # input[i]
    /\ \E i \in 1 .. 4 : array[i] = input[i] /\ Compare(comparator, input[i], input[i + 4]) # "Equal"

\* C19: after compare_and_swap on a bitonic array whose length is a power of
\* two, each half of the array is bitonic.
C19_HalvesStayBitonic ==
    \A is_asc \in BOOLEAN :
        ReturnedOnBitonic("compare_and_swap", is_asc)
            => /\ Bitonic(SubSeq(array, 1, Len(array) \div 2), comparator)
               /\ Bitonic(SubSeq(array, Len(array) \div 2 + 1, Len(array)), comparator)

\* C19 witness: after a pass over 8 bitonic elements a half is a rotation
\* that neither rises then falls nor is constant
C19_Witness ==
    /\ phase = "returned"
    /\ call.fn = "compare_and_swap"
    /\ Len(input) = 8
    /\ Bitonic(input, comparator)
    /\ array # input
    /\ ~RisesThenFalls(SubSeq(array, 5, 8), comparator)
\* frame p is in the loop of compare_and_swap and this step is an iteration
LoopAdvances(p) ==
    /\ frames[p].fn = "sub_sort" /\ frames[p].pc = "cas"
    /\ p \in DOMAIN frames'
    /\ frames'[p].i = frames[p].i + 1

\* the positions, counted from 1, of the pair (i, i + n/2) of the slice of p
Lower(p) == frames[p].lo + frames[p].i + 1
Upper(p) == frames[p].lo + SliceLen(p) \div 2 + frames[p].i + 1

\* the result that makes compare_and_swap exchange a pair
Exchanging(p) == IF frames[p].is_asc THEN "Greater" ELSE "Less"

\* this step exchanges the elements at positions x and y, nothing else
Exchanged(x, y) ==
    /\ Len(array') = Len(array)
    /\ array'[x] = array[y]
    /\ array'[y] = array[x]
    /\ \A k \in 1 .. Len(array) \ {x, y} : array'[k] = array[k]

PairExchangedIffConditionMet ==
    \A p \in DOMAIN frames :
        LoopAdvances(p)
            => /\ frames[p].i < SliceLen(p) \div 2
               /\ IF Compare(comparator, array[Lower(p)], array[Upper(p)]) = Exchanging(p)
                  THEN Exchanged(Lower(p), Upper(p))
                  ELSE array' = array

OnlyThePassWrites ==
    (\A p \in DOMAIN frames : ~LoopAdvances(p)) => array' = array

\* C17: iteration i of a compare_and_swap pass on a slice of n elements
\* exchanges elements i and i + n/2 if and only if the comparator, applied to
\* them in this order, returns Greater (is_asc true) or Less (is_asc false);
\* on Equal nothing is exchanged, and no other position is modified.
C17_ExchangeIffConditionMet ==
    [][PairExchangedIffConditionMet /\ OnlyThePassWrites]_vars

\* C17 witness: an ascending pass by age has just left a pair of students of
\* the same age as it was, the one with the higher number first, after
\* another pair had been exchanged
C17_Witness ==
    \E p \in DOMAIN frames :
        /\ frames[p].fn = "sub_sort" /\ frames[p].pc = "cas"
        /\ frames[p].is_asc
        /\ frames[p].i = 1
        /\ SliceLen(p) = 2
        /\ comparator = "by_age"
        /\ array[frames[p].lo + 1] = 2
        /\ array[frames[p].lo + 2] = 1
        /\ array # input
\* frame p has handed its two halves to rayon::join / runs them itself
HalvesForked(p) == frames[p].pc = "join"
HalvesInTurn(p) == frames[p].pc \in {"first", "second"}

\* the calls frame p is waiting for are closures of a join / plain calls
ChildrenAreClosures(p) == \A q \in Children(p) : frames[q].forked
ChildrenAreCalls(p) == \A q \in Children(p) : ~frames[q].forked

\* while frame p runs its halves in turn, the second half is not started
\* before the first has returned: at most the half in turn is active
OneHalfAtATime(p) ==
    /\ frames[p].pc = "first"
          => Children(p) \subseteq {Append(p, 1)}
    /\ frames[p].pc = "second"
          => Children(p) \subseteq {Append(p, 2)}
    /\ \A q \in Children(p) :
          /\ q = Append(p, 1) => frames[q].lo = frames[p].lo /\ frames[q].hi = SplitAt(p)
          /\ q = Append(p, 2) => frames[q].lo = SplitAt(p) /\ frames[q].hi = frames[p].hi

RECURSIVE MergePairs(_, _)
MergePairs(lo, n) ==
    IF n <= 1 THEN EmptyBag
    ELSE SetToBag({<<lo + i, lo + n \div 2 + i>> : i \in 0 .. n \div 2 - 1})
         (+) MergePairs(lo, n \div 2)
         (+) MergePairs(lo + n \div 2, n \div 2)

RECURSIVE NetworkPairs(_, _)
NetworkPairs(lo, n) ==
    IF n <= 1 THEN EmptyBag
    ELSE NetworkPairs(lo, n \div 2)
         (+) NetworkPairs(lo + n \div 2, n \div 2)
         (+) MergePairs(lo, n)

\* the k with n = 2^k
Log2(n) == CHOOSE k \in 0 .. n : 2 ^ k = n

\* C20: a sort_by call that succeeds on n = 2^k elements has compared the
\* same index pairs whatever the elements are, each as often as the length
\* alone determines, (n/2) * k * (k+1) / 2 comparisons in all.
C20_ComparisonsDependOnLengthOnly ==
    (phase = "returned" /\ result = Ok)
        => /\ compared = NetworkPairs(0, Len(input))
           /\ BagCardinality(compared)
                = (Len(input) \div 2) * ((Log2(Len(input)) * (Log2(Len(input)) + 1)) \div 2)

\* C20 witness: a call on 4 elements has returned after 6 comparisons, some
\* of which exchanged elements
C20_Witness ==
    /\ phase = "returned"
    /\ result = Ok
    /\ Len(input) = 4
    /\ array # input
    /\ BagCardinality(compared) = 6

====
